---- MODULE Spec2Model ----
(***************************************************************************)
(* StudyScroll (GakutoBot): the session store of storage.py, the audio     *)
(* synthesis of generator/audio.py, the topic handler of bot/main.py and   *)
(* the webhook and HTTP routes of api/server.py.                           *)
(***************************************************************************)
EXTENDS Integers, Sequences, FiniteSets, TLC

VARIABLES
    storage,      \* storage.py: [bucket, disk, blobs], the process's backend and both file spaces
    synth,        \* generator/audio.py: per identifier, the script gTTS is writing to its path
    ret,          \* the most recent storage call and what it returned or raised
    saved,        \* identifiers for which a save_audio call has returned
    firstDoc,     \* per identifier, the document of the first create_session that returned it
    lastCreate,   \* per identifier, the outcome of the latest create_session that drew it
    _processed_updates,  \* api/server.py: the OrderedDict's keys, oldest first
    _background_tasks,   \* api/server.py: the tasks held, by their index in tasks
    tasks,        \* every task asyncio.create_task made, in order, with its position
    delivery,     \* the latest webhook request and what telegram_webhook did with it
    twin          \* a second process on the remote backend, given the same calls:
                  \* [S, ret], its storage and what its latest call returned

storeVars == <<storage, synth, ret, saved, firstDoc, lastCreate>>
webVars == <<_processed_updates, _background_tasks, tasks, delivery, twin>>
vars == <<storage, synth, ret, saved, firstDoc, lastCreate,
          _processed_updates, _background_tasks, tasks, delivery, twin>>

----------------------------------------------------------------------------
(* Values *)

\* str(uuid.uuid4())[:8]: the identifiers a create_session call can draw.
NumIds == 2
Ids == 1..NumIds

\* The (topic, cards) pairs the callers pass: cards are named by their type tag.
DocInputs ==
    {[topic |-> "Photosynthesis", cards |-> <<"concept", "quiz", "summary">>],
     [topic |-> "Cold War", cards |-> <<"quiz", "concept">>]}

None == [kind |-> "None"]
Ok(v) == [kind |-> "ok", val |-> v]
Raise(e) == [kind |-> "raise", val |-> e]

NoFile == [exists |-> FALSE, data |-> <<>>]
File(d) == [exists |-> TRUE, data |-> d]

\* How much of s a write that fails has put in the file: nothing, half of it,
\* or all but its end.
Prefixes(s) == {SubSeq(s, 1, k) : k \in {0, Len(s) \div 2, Len(s) - 1}}

----------------------------------------------------------------------------
(* json.dumps / json.loads on {"topic": ..., "cards": [...]} *)

\* A serializer that emits the cards last-first.
json_dumps_reversed(doc) ==
    <<"{", "topic", doc.topic, "cards", "[">>
      \o [i \in 1..Len(doc.cards) |-> doc.cards[Len(doc.cards) + 1 - i]]
      \o <<"]", "}">>

json_dumps(doc) ==
    <<"{", "topic", doc.topic, "cards", "[">> \o doc.cards \o <<"]", "}">>

json_loads(text) ==
    LET n == Len(text) IN
    IF /\ n >= 7
       /\ text[1] = "{" /\ text[2] = "topic" /\ text[4] = "cards" /\ text[5] = "["
       /\ text[n - 1] = "]" /\ text[n] = "}"
    THEN Ok([topic |-> text[3], cards |-> SubSeq(text, 6, n - 2)])
    ELSE Raise("JSONDecodeError")

----------------------------------------------------------------------------
(* generator/content.py and generator/audio.py *)

ScriptLine(card) ==
    IF card = "quiz" THEN <<"Quiz time.", card>>
    ELSE IF card = "summary" THEN <<"Summary.", card>>
    ELSE <<card>>

cards_to_audio_script(topic, cards) ==
    <<<<"Let's study", topic>>>> \o [i \in 1..Len(cards) |-> ScriptLine(cards[i])]

\* gTTS(text=script).save(path): one MP3 frame per line of the script.
_synthesize(script) == [i \in 1..Len(script) |-> <<"mp3", script[i]>>]

Scripts == {cards_to_audio_script(d.topic, d.cards) : d \in DocInputs}

----------------------------------------------------------------------------
(* storage.py *)

\* A store that keeps every document under one name.
JsonName_shared(session_id) == <<1, "json">>

JsonName(session_id) == <<session_id, "json">>
Mp3Name(session_id) == <<session_id, "mp3">>
Names == {JsonName(i) : i \in Ids} \cup {Mp3Name(i) : i \in Ids}

_use_gcs(S) == S.bucket

get_local_audio_path(session_id) == Mp3Name(session_id)

\* Path.write_text(data): open(mode='w') creates or truncates the file, then the
\* data is written. io is what the file system does with it.
WriteTextOutcomes(data) ==
    {[kind |-> "ok", left |-> data, opened |-> TRUE]}
      \cup {[kind |-> "raise", left |-> <<>>, opened |-> FALSE]}
      \cup {[kind |-> "raise", left |-> p, opened |-> TRUE] : p \in Prefixes(data)}

write_text(disk, name, io) ==
    IF io.opened THEN [disk EXCEPT ![name] = File(io.left)] ELSE disk

\* blob.upload_from_string / upload_from_filename: the object appears whole or not at all.
UploadOutcomes ==
    {[kind |-> "ok", opened |-> TRUE], [kind |-> "raise", opened |-> FALSE]}

upload(blobs, name, data, io) ==
    IF io.kind = "ok" THEN [blobs EXCEPT ![name] = File(data)] ELSE blobs

\* What the backend of S can do with a write of data.
WriteOutcomes(S, data) ==
    IF _use_gcs(S) THEN UploadOutcomes ELSE WriteTextOutcomes(data)

create_session(S, session_id, topic, cards, io) ==
    LET data == json_dumps([topic |-> topic, cards |-> cards])
        S2 == IF _use_gcs(S)
              THEN [S EXCEPT !.blobs = upload(S.blobs, JsonName(session_id), data, io)]
              ELSE [S EXCEPT !.disk = write_text(S.disk, JsonName(session_id), io)]
    IN  [S |-> S2,
         ret |-> IF io.kind = "ok" THEN Ok(session_id) ELSE Raise("StorageBackendError")]

load_session(S, session_id) ==
    IF _use_gcs(S)
    THEN LET blob == S.blobs[JsonName(session_id)] IN
         IF ~blob.exists THEN None ELSE json_loads(blob.data)
    ELSE LET path == S.disk[JsonName(session_id)] IN
         IF ~path.exists THEN None ELSE json_loads(path.data)

\* io is the outcome of the upload; the local backend does nothing at all.
save_audio(S, session_id, local_path, io) ==
    IF _use_gcs(S)
    THEN IF ~S.disk[local_path].exists
         THEN [S |-> S, ret |-> Raise("FileNotFoundError")]
         ELSE [S |-> [S EXCEPT !.blobs = upload(S.blobs, Mp3Name(session_id),
                                                S.disk[local_path].data, io)],
               ret |-> IF io.kind = "ok" THEN None ELSE Raise("StorageBackendError")]
    ELSE [S |-> S, ret |-> None]

audio_exists(S, session_id) ==
    IF _use_gcs(S)
    THEN S.blobs[Mp3Name(session_id)].exists
    ELSE S.disk[Mp3Name(session_id)].exists

\* tempfile.NamedTemporaryFile(suffix=".mp3", delete=False): a name no earlier call got
NamedTemporaryFile(S) == <<"tmp", S.ntmp + 1>>

\* A get_audio_path that serves the object by moving it out of the bucket.
get_audio_path_moving(S, session_id) ==
    LET blob == S.blobs[Mp3Name(session_id)]
        path == S.disk[Mp3Name(session_id)]
    IN  IF _use_gcs(S)
        THEN IF ~blob.exists THEN [S |-> S, ret |-> None]
             ELSE [S |-> [S EXCEPT !.ntmp = @ + 1, !.blobs[Mp3Name(session_id)] = NoFile],
                   ret |-> Ok([path |-> NamedTemporaryFile(S), bytes |-> blob.data])]
        ELSE IF path.exists
             THEN [S |-> S, ret |-> Ok([path |-> Mp3Name(session_id), bytes |-> path.data])]
             ELSE [S |-> S, ret |-> None]

\* The returned path, with the bytes a reader of that path finds there. On the
\* remote backend every call leaves one more temporary file behind.
get_audio_path(S, session_id) ==
    IF _use_gcs(S)
    THEN LET blob == S.blobs[Mp3Name(session_id)] IN
         IF ~blob.exists THEN [S |-> S, ret |-> None]
         ELSE [S |-> [S EXCEPT !.ntmp = @ + 1],
               ret |-> Ok([path |-> NamedTemporaryFile(S), bytes |-> blob.data])]
    ELSE LET path == S.disk[Mp3Name(session_id)] IN
         IF path.exists
         THEN [S |-> S, ret |-> Ok([path |-> Mp3Name(session_id), bytes |-> path.data])]
         ELSE [S |-> S, ret |-> None]

----------------------------------------------------------------------------
(* gTTS.save(output_path), run in the executor thread of generate_audio *)

\* open(output_path, "wb")
tts_open(S, output_path) == [S EXCEPT !.disk[output_path] = File(<<>>)]

\* the next frame is written to the open file
tts_write(S, output_path, script) ==
    LET have == S.disk[output_path].data
        all == _synthesize(script)
    IN  IF S.disk[output_path].exists /\ Len(have) < Len(all)
        THEN [S EXCEPT !.disk[output_path] = File(Append(have, all[Len(have) + 1]))]
        ELSE S

\* gTTS.save(output_path) run to its end
tts_save(S, output_path, script) ==
    [S EXCEPT !.disk[output_path] = File(_synthesize(script))]

tts_done(S, output_path, script) ==
    /\ S.disk[output_path].exists
    /\ Len(S.disk[output_path].data) >= Len(_synthesize(script))

----------------------------------------------------------------------------
(* State *)

Idle == <<>>
Never == [kind |-> "never", doc |-> <<>>]

\* The temporary files one process may leave behind in a run of the model.
MaxTmp == 2

InitStorage(gcs) ==
    [bucket |-> gcs, disk |-> [n \in Names |-> NoFile], blobs |-> [n \in Names |-> NoFile],
     ntmp |-> 0]

Call(op, id, val) == [op |-> op, id |-> id, val |-> val]

Init ==
    /\ storage \in {InitStorage(g) : g \in BOOLEAN}
    /\ synth = [i \in Ids |-> Idle]
    /\ ret = Call("none", 0, None)
    /\ saved = {}
    /\ firstDoc = [i \in Ids |-> <<>>]
    /\ lastCreate = [i \in Ids |-> Never]
    /\ _processed_updates = <<>>
    /\ _background_tasks = {}
    /\ tasks = <<>>
    /\ delivery = [update_id |-> 0, did |-> "none"]
    /\ twin = [S |-> InitStorage(TRUE), ret |-> Call("none", 0, None)]

----------------------------------------------------------------------------
(* The storage API, called in any order *)

\* A call create_session(d.topic, d.cards) in which uuid4 drew session_id and the
\* write went as io says, with the record of what it returned.
CallCreateSession(session_id, d, io) ==
    LET r == create_session(storage, session_id, d.topic, d.cards, io) IN
    /\ storage' = r.S
    /\ ret' = Call("create_session", session_id, r.ret)
    /\ firstDoc' = IF r.ret.kind = "ok" /\ firstDoc[session_id] = <<>>
                    THEN [firstDoc EXCEPT ![session_id] = <<d>>]
                    ELSE firstDoc
    /\ lastCreate' = [lastCreate EXCEPT ![session_id] =
                         IF r.ret.kind = "ok"
                         THEN [kind |-> "returned", doc |-> <<d>>]
                         ELSE [kind |-> "raised", doc |-> <<>>]]

CreateSession ==
    \E session_id \in Ids, d \in DocInputs :
      \E io \in WriteOutcomes(storage, json_dumps(d)) :
        /\ CallCreateSession(session_id, d, io)
        /\ UNCHANGED <<synth, saved>>
        /\ UNCHANGED webVars

LoadSession ==
    \E session_id \in Ids :
        /\ ret' = Call("load_session", session_id, load_session(storage, session_id))
        /\ UNCHANGED <<storage, synth, saved, firstDoc, lastCreate>>
        /\ UNCHANGED webVars

SaveAudio ==
    \E session_id \in Ids, io \in UploadOutcomes :
        LET r == save_audio(storage, session_id, get_local_audio_path(session_id), io) IN
        /\ storage' = r.S
        /\ ret' = Call("save_audio", session_id, r.ret)
        /\ saved' = IF r.ret.kind = "None" THEN saved \cup {session_id} ELSE saved
        /\ UNCHANGED <<synth, firstDoc, lastCreate>>
        /\ UNCHANGED webVars

AudioExists ==
    \E session_id \in Ids :
        /\ ret' = Call("audio_exists", session_id, Ok(audio_exists(storage, session_id)))
        /\ UNCHANGED <<storage, synth, saved, firstDoc, lastCreate>>
        /\ UNCHANGED webVars

GetAudioPath ==
    \E session_id \in Ids :
        LET r == get_audio_path(storage, session_id) IN
        /\ r.S.ntmp <= MaxTmp
        /\ storage' = r.S
        /\ ret' = Call("get_audio_path", session_id, r.ret)
        /\ UNCHANGED <<synth, saved, firstDoc, lastCreate>>
        /\ UNCHANGED webVars

\* generate_audio(script, get_local_audio_path(id)) starts: gTTS opens the file.
GenerateAudioBegin ==
    \E session_id \in Ids, script \in Scripts :
        /\ synth[session_id] = Idle
        /\ synth' = [synth EXCEPT ![session_id] = <<script>>]
        /\ storage' = tts_open(storage, get_local_audio_path(session_id))
        /\ UNCHANGED <<ret, saved, firstDoc, lastCreate>>
        /\ UNCHANGED webVars

GenerateAudioWrite ==
    \E session_id \in Ids :
        /\ synth[session_id] # Idle
        /\ ~tts_done(storage, get_local_audio_path(session_id), synth[session_id][1])
        /\ storage' = tts_write(storage, get_local_audio_path(session_id),
                                synth[session_id][1])
        /\ UNCHANGED <<synth, ret, saved, firstDoc, lastCreate>>
        /\ UNCHANGED webVars

GenerateAudioReturn ==
    \E session_id \in Ids :
        /\ synth[session_id] # Idle
        /\ tts_done(storage, get_local_audio_path(session_id), synth[session_id][1])
        /\ synth' = [synth EXCEPT ![session_id] = Idle]
        /\ ret' = Call("generate_audio", session_id,
                        Ok(get_local_audio_path(session_id)))
        /\ UNCHANGED <<storage, saved, firstDoc, lastCreate>>
        /\ UNCHANGED webVars

\* gTTS raises part-way (gTTSError): the file stays as far as it was written.
GenerateAudioRaise ==
    \E session_id \in Ids :
        /\ synth[session_id] # Idle
        /\ ~tts_done(storage, get_local_audio_path(session_id), synth[session_id][1])
        /\ synth' = [synth EXCEPT ![session_id] = Idle]
        /\ ret' = Call("generate_audio", session_id, Raise("gTTSError"))
        /\ UNCHANGED <<storage, saved, firstDoc, lastCreate>>
        /\ UNCHANGED webVars

\* generate_audio, save_audio, audio_exists and get_audio_path, called in any order.
NextAudio ==
    \/ SaveAudio
    \/ AudioExists
    \/ GetAudioPath
    \/ GenerateAudioBegin
    \/ GenerateAudioWrite
    \/ GenerateAudioReturn
    \/ GenerateAudioRaise

SpecAudio == Init /\ [][NextAudio]_vars

\* create_session and load_session alone, called in any order.
NextDocs ==
    \/ CreateSession
    \/ LoadSession

SpecDocs == Init /\ [][NextDocs]_vars

----------------------------------------------------------------------------
(* Two processes, storage on the local file system and twin on the remote
   bucket, given the same calls with the same arguments, every write going
   through. *)

InitParity ==
    /\ Init
    /\ storage = InitStorage(FALSE)

WriteOk == [kind |-> "ok", opened |-> TRUE]

ParityFrame ==
    UNCHANGED <<synth, saved, firstDoc, lastCreate,
                _processed_updates, _background_tasks, tasks, delivery>>

ParityCreateSession ==
    \E session_id \in Ids, d \in DocInputs :
        LET a == create_session(storage, session_id, d.topic, d.cards,
                                [kind |-> "ok", left |-> json_dumps(d), opened |-> TRUE])
            b == create_session(twin.S, session_id, d.topic, d.cards, WriteOk)
        IN  /\ storage' = a.S
            /\ ret' = Call("create_session", session_id, a.ret)
            /\ twin' = [S |-> b.S, ret |-> Call("create_session", session_id, b.ret)]
            /\ ParityFrame

ParityLoadSession ==
    \E session_id \in Ids :
        /\ ret' = Call("load_session", session_id, load_session(storage, session_id))
        /\ twin' = [twin EXCEPT !.ret =
                       Call("load_session", session_id, load_session(twin.S, session_id))]
        /\ UNCHANGED storage /\ ParityFrame

\* generate_audio(script, get_local_audio_path(session_id)) from call to return
ParityGenerateAudio ==
    \E session_id \in Ids, sc \in Scripts :
        LET path == get_local_audio_path(session_id) IN
        /\ storage' = tts_save(storage, path, sc)
        /\ ret' = Call("generate_audio", session_id, Ok(path))
        /\ twin' = [S |-> tts_save(twin.S, path, sc),
                    ret |-> Call("generate_audio", session_id, Ok(path))]
        /\ ParityFrame

\* save_audio(session_id, path) of a caller that has generated the audio at path
ParitySaveAudio ==
    \E session_id \in Ids :
        LET path == get_local_audio_path(session_id)
            a == save_audio(storage, session_id, path, WriteOk)
            b == save_audio(twin.S, session_id, path, WriteOk)
        IN  /\ storage.disk[path].exists
            /\ storage' = a.S
            /\ ret' = Call("save_audio", session_id, a.ret)
            /\ twin' = [S |-> b.S, ret |-> Call("save_audio", session_id, b.ret)]
            /\ ParityFrame

ParityAudioExists ==
    \E session_id \in Ids :
        /\ ret' = Call("audio_exists", session_id, Ok(audio_exists(storage, session_id)))
        /\ twin' = [twin EXCEPT !.ret =
                       Call("audio_exists", session_id, Ok(audio_exists(twin.S, session_id)))]
        /\ UNCHANGED storage /\ ParityFrame

ParityGetAudioPath ==
    \E session_id \in Ids :
        LET a == get_audio_path(storage, session_id)
            b == get_audio_path(twin.S, session_id)
        IN  /\ b.S.ntmp <= MaxTmp
            /\ storage' = a.S
            /\ ret' = Call("get_audio_path", session_id, a.ret)
            /\ twin' = [S |-> b.S, ret |-> Call("get_audio_path", session_id, b.ret)]
            /\ ParityFrame

NextParity ==
    \/ ParityCreateSession
    \/ ParityLoadSession
    \/ ParityGenerateAudio
    \/ ParitySaveAudio
    \/ ParityAudioExists
    \/ ParityGetAudioPath

SpecParity == InitParity /\ [][NextParity]_vars

\* The writes alone, on both backends: create_session, generate_audio to the
\* staging path, and save_audio, for any identifiers in any order.
NextFrame ==
    \/ ParityCreateSession
    \/ ParityGenerateAudio
    \/ ParitySaveAudio

SpecFrame == InitParity /\ [][NextFrame]_vars

\* What a caller can tell of a result: for a path, the bytes it serves.
Observable(r) ==
    IF r.val.kind = "ok" /\ r.op = "get_audio_path"
    THEN [op |-> r.op, id |-> r.id, kind |-> "ok", bytes |-> r.val.val.bytes]
    ELSE IF r.val.kind = "ok" /\ r.op = "generate_audio"
    THEN [op |-> r.op, id |-> r.id, kind |-> "ok"]
    ELSE r

\* C6: after every call the local and the remote backend have answered alike:
\* the same None, the same readiness, the same document, the same bytes.
C6_BackendParity == Observable(ret) = Observable(twin.ret)

----------------------------------------------------------------------------
(* Properties of create_session and load_session *)

Returned(id) == firstDoc[id] # <<>>

\* C3: an identifier whose latest create_session call returned it with {topic, cards}
\* loads exactly that document, cards in order, whatever was done since on other
\* identifiers.
C3_RoundTrip ==
    \A id \in Ids :
        lastCreate[id].kind = "returned"
            => load_session(storage, id) = Ok(lastCreate[id].doc[1])

\* A three-card document was created, and the latest call was a create_session
\* that returned another identifier.
C3_Witness ==
    \E id \in Ids :
        /\ lastCreate[id].kind = "returned"
        /\ Len(lastCreate[id].doc[1].cards) = 3
        /\ ret.op = "create_session" /\ ret.val.kind = "ok" /\ ret.id # id

\* C4: load_session(id) returns the document that the first create_session
\* returning id wrote, for ever after.
C4_WriteOnce ==
    \A id \in Ids :
        Returned(id) => load_session(storage, id) = Ok(firstDoc[id][1])

\* C5: a create_session call never returns an identifier that an earlier call
\* returned, so never one under which a document already exists.
C5_FreshIdentifier ==
    [][\A id \in Ids :
          (ret'.op = "create_session" /\ ret'.id = id /\ ret'.val.kind = "ok")
              => ~Returned(id)]_vars

\* C7: after a create_session whose write failed, load_session on the identifier
\* of that write answers None, as for an identifier never created.
C7_FailedWriteNotFound ==
    (ret.op = "create_session" /\ ret.val.kind = "raise" /\ ~Returned(ret.id))
        => load_session(storage, ret.id) = None

\* C10: load_session on an identifier that create_session never returned is None.
C10_NeverReturnedNotFound ==
    \A id \in Ids : ~Returned(id) => load_session(storage, id) = None
----------------------------------------------------------------------------
(* api/server.py: the webhook *)

\* MAX_TRACKED_UPDATES is 1000 in server.py; scaled down so that eviction happens.
MAX_TRACKED_UPDATES == 2
MaxUpdateId == 3
MaxTasks == 4

UpdateIds == 1..MaxUpdateId

\* The text of the message an update carries; a redelivery carries it again.
TextOf(update_id) == IF update_id % 2 = 1 THEN "Photosynthesis" ELSE "hi"

\* request.json() and Update.de_json: a body that parses to an update, or raises.
Requests ==
    {[parses |-> TRUE, update_id |-> u] : u \in UpdateIds}
      \cup {[parses |-> FALSE, update_id |-> 0]}

Keys(d) == {d[i] : i \in 1..Len(d)}

\* the membership test of a handler that tracks nothing
is_tracked_never(d, update_id) == FALSE

\* update.update_id in _processed_updates
is_tracked(d, update_id) == update_id \in Keys(d)

\* _processed_updates[update_id] = True: a new key goes last, a known key stays put
setitem(d, update_id) == IF update_id \in Keys(d) THEN d ELSE Append(d, update_id)

\* an eviction that drops the newest key, popitem(last=True)
popitem_last(d) == SubSeq(d, 1, Len(d) - 1)

\* _processed_updates.popitem(last=False)
popitem_first(d) == Tail(d)

track(d, update_id) ==
    LET d2 == setitem(d, update_id) IN
    IF Len(d2) > MAX_TRACKED_UPDATES THEN popitem_first(d2) ELSE d2

\* A webhook that awaits _process_update_safe(update) before it answers.
NewTask_awaited(update_id) ==
    [update_id |-> update_id, pc |-> "done", at |-> "returned",
     cards |-> <<>>, session_id |-> 0, status_msg |-> "none", sent |-> {},
     e |-> "none", audio_err |-> "none"]

\* asyncio.create_task(_process_update_safe(update)): the coroutine has not run yet
NewTask(update_id) ==
    [update_id |-> update_id, pc |-> "scheduled", at |-> "start",
     cards |-> <<>>, session_id |-> 0, status_msg |-> "none", sent |-> {},
     e |-> "none", audio_err |-> "none"]

\* telegram_webhook(request), the whole handler. cap bounds the tasks ever made.
TelegramWebhook(cap) ==
    \E data \in Requests :
        /\ UNCHANGED <<storeVars, twin>>
        /\ IF ~data.parses
           THEN /\ delivery' = [update_id |-> 0, did |-> "error"]
                /\ UNCHANGED <<_processed_updates, _background_tasks, tasks>>
           ELSE IF is_tracked(_processed_updates, data.update_id)
           THEN /\ delivery' = [update_id |-> data.update_id, did |-> "duplicate"]
                /\ UNCHANGED <<_processed_updates, _background_tasks, tasks>>
           ELSE /\ Len(tasks) < cap
                /\ _processed_updates' = track(_processed_updates, data.update_id)
                /\ tasks' = Append(tasks, NewTask(data.update_id))
                /\ _background_tasks' = _background_tasks \cup {Len(tasks) + 1}
                /\ delivery' = [update_id |-> data.update_id, did |-> "dispatched"]

\* The body telegram_webhook answered the latest request with.
Ack(d) == IF d.did = "error" THEN [ok |-> FALSE] ELSE [ok |-> TRUE]

\* A done callback that leaves the set as it is.
discard_nothing(s, t) == s

\* task.add_done_callback(_background_tasks.discard), called when the task is done
discard(s, t) == s \ {t}

\* _process_update_safe starts running: "Processing update ..."
ProcessUpdateBegin ==
    \E t \in DOMAIN tasks :
        /\ tasks[t].pc = "scheduled"
        /\ tasks' = [tasks EXCEPT ![t].pc = "processing"]
        /\ UNCHANGED <<_processed_updates, _background_tasks, delivery>>
        /\ UNCHANGED <<storeVars, twin>>

\* bot_app.process_update(update) taken as a whole: it returns, or it raises.
ProcessUpdate ==
    \E t \in DOMAIN tasks, out \in {"returned", "escaped"} :
        /\ tasks[t].pc = "processing"
        /\ tasks[t].at = "start"
        /\ tasks' = [tasks EXCEPT ![t].at = out]
        /\ UNCHANGED <<_processed_updates, _background_tasks, delivery>>
        /\ UNCHANGED <<storeVars, twin>>

\* _process_update_safe ends, having logged success or the exception it caught;
\* the done callback discards the task from _background_tasks.
ProcessUpdateEnd ==
    \E t \in DOMAIN tasks :
        /\ tasks[t].pc = "processing"
        /\ tasks[t].at \in {"returned", "escaped"}
        /\ tasks' = [tasks EXCEPT ![t].pc = "done"]
        /\ _background_tasks' = discard(_background_tasks, t)
        /\ UNCHANGED <<_processed_updates, delivery>>
        /\ UNCHANGED <<storeVars, twin>>

----------------------------------------------------------------------------
(* bot/main.py: handle_topic, run by process_update for a text message. Each
   action runs the handler of task t from one await to the next. *)

MaxRuns == 1

\* What generate_study_cards can return for a topic.
CardLists == {d.cards : d \in DocInputs}

At(t, where) == tasks[t].pc = "processing" /\ tasks[t].at = where

topic(t) == TextOf(tasks[t].update_id)

audio_path(t) == get_local_audio_path(tasks[t].session_id)

script(t) == cards_to_audio_script(topic(t), tasks[t].cards)

webFrame == UNCHANGED <<_processed_updates, _background_tasks, delivery, twin>>

\* len(topic) < 3
TooShort(text) == text = "hi"

\* A bot whose messages never reach the chat.
reply_text_lost(sent, msg) == sent

\* update.message.reply_text / reply_audio and status_msg.edit_text, delivered:
\* one more message the user has been sent
reply_text(sent, msg) == sent \cup {msg}

\* lines 47-56: the short-topic reply, or the "Generating study feed" reply
HandleTopicStart ==
    \E t \in DOMAIN tasks, sends \in BOOLEAN :
        /\ At(t, "start")
        /\ tasks' =
             IF TooShort(topic(t))
             THEN IF sends
                  THEN [tasks EXCEPT ![t].at = "returned", ![t].sent = reply_text(@, "too_short")]
                  ELSE [tasks EXCEPT ![t].at = "escaped"]
             ELSE IF sends
                  THEN [tasks EXCEPT ![t].at = "edit", ![t].status_msg = "shown",
                                     ![t].sent = reply_text(@, "generating")]
                  ELSE [tasks EXCEPT ![t].at = "escaped"]
        /\ webFrame /\ UNCHANGED storeVars

\* lines 60-63: status_msg.edit_text("Building cards")
HandleTopicEdit ==
    \E t \in DOMAIN tasks, sends \in BOOLEAN :
        /\ At(t, "edit")
        /\ tasks' = IF sends
                     THEN [tasks EXCEPT ![t].at = "build"]
                     ELSE [tasks EXCEPT ![t].at = "except", ![t].e = "edit_text"]
        /\ webFrame /\ UNCHANGED storeVars

\* lines 64-72: generate_study_cards raises
HandleTopicCardsRaise ==
    \E t \in DOMAIN tasks :
        /\ At(t, "build")
        /\ tasks' = [tasks EXCEPT ![t].at = "except", ![t].e = "generate_study_cards"]
        /\ webFrame /\ UNCHANGED storeVars

\* lines 64-72: generate_study_cards returns cards, then create_session(topic, cards)
HandleTopicCreate ==
    \E t \in DOMAIN tasks, cards \in CardLists, session_id \in Ids :
      \E io \in WriteOutcomes(storage, json_dumps([topic |-> topic(t), cards |-> cards])) :
        /\ At(t, "build")
        /\ CallCreateSession(session_id, [topic |-> topic(t), cards |-> cards], io)
        /\ tasks' = IF io.kind = "ok"
                     THEN [tasks EXCEPT ![t].at = "delete", ![t].cards = cards,
                                        ![t].session_id = session_id]
                     ELSE [tasks EXCEPT ![t].at = "except", ![t].cards = cards,
                                        ![t].e = "create_session"]
        /\ webFrame /\ UNCHANGED <<synth, saved>>

\* line 72: status_msg.delete()
HandleTopicDelete ==
    \E t \in DOMAIN tasks, sends \in BOOLEAN :
        /\ At(t, "delete")
        /\ tasks' = IF sends
                     THEN [tasks EXCEPT ![t].at = "link", ![t].status_msg = "deleted"]
                     ELSE [tasks EXCEPT ![t].at = "except", ![t].e = "delete"]
        /\ webFrame /\ UNCHANGED storeVars

\* lines 73-86: the "Your study feed is ready" reply with the session link
HandleTopicLink ==
    \E t \in DOMAIN tasks, sends \in BOOLEAN :
        /\ At(t, "link")
        /\ tasks' = IF sends
                     THEN [tasks EXCEPT ![t].at = "audio", ![t].sent = reply_text(@, "link")]
                     ELSE [tasks EXCEPT ![t].at = "except", ![t].e = "reply_text"]
        /\ webFrame /\ UNCHANGED storeVars

\* lines 90-92: generate_audio hands _synthesize to the executor; gTTS opens the
\* file at audio_path, or raises before it does
HandleTopicAudio ==
    \E t \in DOMAIN tasks, opens \in BOOLEAN :
        /\ At(t, "audio")
        /\ tasks' = IF opens
                     THEN [tasks EXCEPT ![t].at = "synth"]
                     ELSE [tasks EXCEPT ![t].at = "audio_except",
                                        ![t].audio_err = "generate_audio"]
        /\ storage' = IF opens THEN tts_open(storage, audio_path(t)) ELSE storage
        /\ webFrame /\ UNCHANGED <<synth, ret, saved, firstDoc, lastCreate>>

\* the executor thread writes the next frame
HandleTopicSynthWrite ==
    \E t \in DOMAIN tasks :
        /\ At(t, "synth")
        /\ ~tts_done(storage, audio_path(t), script(t))
        /\ storage' = tts_write(storage, audio_path(t), script(t))
        /\ UNCHANGED <<tasks, synth, ret, saved, firstDoc, lastCreate>>
        /\ webFrame

\* the executor thread raises part-way; generate_audio raises in the handler
HandleTopicSynthRaise ==
    \E t \in DOMAIN tasks :
        /\ At(t, "synth")
        /\ ~tts_done(storage, audio_path(t), script(t))
        /\ tasks' = [tasks EXCEPT ![t].at = "audio_except",
                                   ![t].audio_err = "generate_audio"]
        /\ ret' = Call("generate_audio", tasks[t].session_id, Raise("gTTSError"))
        /\ UNCHANGED <<storage, synth, saved, firstDoc, lastCreate>>
        /\ webFrame

\* lines 92-94: generate_audio returns, then save_audio(session_id, audio_path)
HandleTopicSave ==
    \E t \in DOMAIN tasks, io \in UploadOutcomes :
        LET r == save_audio(storage, tasks[t].session_id, audio_path(t), io) IN
        /\ At(t, "synth")
        /\ tts_done(storage, audio_path(t), script(t))
        /\ storage' = r.S
        /\ ret' = Call("save_audio", tasks[t].session_id, r.ret)
        /\ saved' = IF r.ret.kind = "None" THEN saved \cup {tasks[t].session_id} ELSE saved
        /\ tasks' = IF r.ret.kind = "None"
                     THEN [tasks EXCEPT ![t].at = "reply_audio"]
                     ELSE [tasks EXCEPT ![t].at = "audio_except",
                                        ![t].audio_err = "save_audio"]
        /\ UNCHANGED <<synth, firstDoc, lastCreate>>
        /\ webFrame

\* lines 96-100: reply_audio(open(audio_path, "rb"))
HandleTopicReplyAudio ==
    \E t \in DOMAIN tasks, sends \in BOOLEAN :
        /\ At(t, "reply_audio")
        /\ tasks' = IF sends
                     THEN [tasks EXCEPT ![t].at = "returned", ![t].sent = reply_text(@, "audio")]
                     ELSE [tasks EXCEPT ![t].at = "audio_except",
                                        ![t].audio_err = "reply_audio"]
        /\ webFrame /\ UNCHANGED storeVars

\* lines 101-105: except Exception as audio_err: the "Audio generation failed" reply
HandleTopicAudioExcept ==
    \E t \in DOMAIN tasks, sends \in BOOLEAN :
        /\ At(t, "audio_except")
        /\ tasks' = IF sends
                     THEN [tasks EXCEPT ![t].at = "returned",
                                        ![t].sent = reply_text(@, "audio_failed")]
                     ELSE [tasks EXCEPT ![t].at = "except", ![t].e = "reply_text"]
        /\ webFrame /\ UNCHANGED storeVars

\* lines 107-112: except Exception as e: status_msg.edit_text("Something went
\* wrong"), which cannot reach a status message already deleted
HandleTopicExcept ==
    \E t \in DOMAIN tasks, sends \in BOOLEAN :
        /\ At(t, "except")
        /\ tasks' = IF sends /\ tasks[t].status_msg = "shown"
                     THEN [tasks EXCEPT ![t].at = "returned", ![t].sent = reply_text(@, "error")]
                     ELSE [tasks EXCEPT ![t].at = "escaped"]
        /\ webFrame /\ UNCHANGED storeVars

Next ==
    \/ TelegramWebhook(MaxRuns)
    \/ ProcessUpdateBegin
    \/ HandleTopicStart
    \/ HandleTopicEdit
    \/ HandleTopicCardsRaise
    \/ HandleTopicCreate
    \/ HandleTopicDelete
    \/ HandleTopicLink
    \/ HandleTopicAudio
    \/ HandleTopicSynthWrite
    \/ HandleTopicSynthRaise
    \/ HandleTopicSave
    \/ HandleTopicReplyAudio
    \/ HandleTopicAudioExcept
    \/ HandleTopicExcept
    \/ ProcessUpdateEnd

Spec == Init /\ [][Next]_vars

----------------------------------------------------------------------------
(* api/server.py: the routes the Mini App reads a session through *)

Response(status, body) == [status |-> status, body |-> body]

\* GET /api/session/{session_id}. An exception no handler catches is answered 500.
get_session(S, session_id) ==
    LET session == load_session(S, session_id) IN
    IF session.kind = "raise" THEN Response(500, "Internal Server Error")
    ELSE IF session = None THEN Response(404, "Session not found")
    ELSE Response(200, session.val)

\* GET /api/session/{session_id}/audio: FileResponse streams what is at the path.
get_audio(S, session_id) ==
    LET r == get_audio_path(S, session_id) IN
    [S |-> r.S,
     ret |-> IF r.ret = None THEN Response(404, "Audio not generated yet")
             ELSE Response(200, r.ret.val.bytes)]

\* GET /api/session/{session_id}/audio/status
get_audio_status(S, session_id) ==
    Response(200, [ready |-> audio_exists(S, session_id)])

GetSession ==
    \E session_id \in Ids :
        /\ ret' = Call("get_session", session_id, get_session(storage, session_id))
        /\ UNCHANGED <<storage, synth, saved, firstDoc, lastCreate>>
        /\ UNCHANGED webVars

GetAudio ==
    \E session_id \in Ids :
        LET r == get_audio(storage, session_id) IN
        /\ r.S.ntmp <= MaxTmp
        /\ storage' = r.S
        /\ ret' = Call("get_audio", session_id, r.ret)
        /\ UNCHANGED <<synth, saved, firstDoc, lastCreate>>
        /\ UNCHANGED webVars

GetAudioStatus ==
    \E session_id \in Ids :
        /\ ret' = Call("get_audio_status", session_id, get_audio_status(storage, session_id))
        /\ UNCHANGED <<storage, synth, saved, firstDoc, lastCreate>>
        /\ UNCHANGED webVars

\* The server: the webhook and its handlers, and the routes, in any interleaving.
NextServer ==
    \/ Next
    \/ GetSession
    \/ GetAudio
    \/ GetAudioStatus

SpecServer == Init /\ [][NextServer]_vars

\* C14: whatever the store holds, GET /api/session/{id} answers 200 with the
\* document if create_session has returned id and 404 if not; GET .../audio
\* answers 404 when audio_exists(id) is false; GET .../audio/status answers 200
\* with ready = audio_exists(id).
C14_HttpStatus ==
    \A id \in Ids :
        /\ get_session(storage, id) =
              IF Returned(id) THEN Response(200, lastCreate[id].doc[1])
              ELSE Response(404, "Session not found")
        /\ ~audio_exists(storage, id) => get_audio(storage, id).ret.status = 404
        /\ get_audio_status(storage, id) = Response(200, [ready |-> audio_exists(storage, id)])

----------------------------------------------------------------------------
(* The reads of storage.py, called at any moment of the server's run *)

NextReads ==
    \/ Next
    \/ LoadSession
    \/ AudioExists
    \/ GetAudioPath

SpecReads == Init /\ [][NextReads]_vars

IsRead(r) == r.op \in {"load_session", "audio_exists", "get_audio_path"}

\* What the call recorded in r returns when it is made on S.
ReadResult(S, r) ==
    IF r.op = "load_session" THEN load_session(S, r.id)
    ELSE IF r.op = "audio_exists" THEN Ok(audio_exists(S, r.id))
    ELSE get_audio_path(S, r.id).ret

\* A step in which a read returned: it set ret, which no write does to a read.
ReadReturns ==
    /\ IsRead(ret')
    /\ \/ ret'.op # ret.op
       \/ ret'.id # ret.id
       \/ ret'.val.kind # ret.val.kind
       \/ ret'.val # ret.val

\* C15 as stated: a read leaves every file and object as it was, and the same
\* call made again returns the identical result.
C15_ReadsIdentical ==
    [][ReadReturns =>
          /\ storage'.disk = storage.disk
          /\ storage'.blobs = storage.blobs
          /\ ReadResult(storage', ret') = ret'.val]_vars

\* C15, amended: a read leaves every stored document and audio artifact as it
\* was; audio_exists and load_session made again return the identical result,
\* and get_audio_path made again returns None again or a path with the same
\* bytes, the path itself being a new temporary file on the remote backend.
C15_ReadsLeaveStoreUnchanged ==
    [][ReadReturns =>
          /\ storage'.disk = storage.disk
          /\ storage'.blobs = storage.blobs
          /\ ret'.op # "get_audio_path" => ReadResult(storage', ret') = ret'.val
          /\ Observable(Call(ret'.op, ret'.id, ReadResult(storage', ret')))
                = Observable(ret')]_vars

\* On the remote backend get_audio_path has returned a second temporary file.
C15_Witness ==
    /\ storage.bucket
    /\ ret.op = "get_audio_path" /\ ret.val.kind = "ok"
    /\ ret.val.val.path = <<"tmp", 2>>
    /\ ret.val.val.bytes = storage.blobs[Mp3Name(ret.id)].data

----------------------------------------------------------------------------
(* Properties of the audio artifact under handle_topic *)

\* C1: audio_exists(id) is true only once a save_audio call for id has returned;
\* until then, the time gTTS is writing to get_local_audio_path(id) included, it
\* is false.
C1_AudioOnlyAfterSave ==
    \A id \in Ids : audio_exists(storage, id) => id \in saved

\* C2: when generate_audio or save_audio has raised for an identifier and no
\* save_audio for it has returned, neither audio_exists nor get_audio_path shows
\* an artifact for it.
C2_NoArtifactAfterFailure ==
    \A t \in DOMAIN tasks :
        (tasks[t].at = "audio_except" /\ tasks[t].session_id \notin saved)
            => /\ ~audio_exists(storage, tasks[t].session_id)
               /\ get_audio_path(storage, tasks[t].session_id).ret = None

\* C11: get_audio_path(id) is None as long as no save_audio for id has returned,
\* and a path it returns holds the whole synthesis of the script of id's cards.
C11_AudioPathComplete ==
    \A id \in Ids :
        LET r == get_audio_path(storage, id).ret IN
        /\ id \notin saved => r = None
        /\ r # None =>
              \E t \in DOMAIN tasks :
                  /\ tasks[t].session_id = id
                  /\ r.val.bytes = _synthesize(script(t))

\* C12: once generate_audio or save_audio has failed for the session a handler
\* created, the document is still loaded as created, audio_exists is false for
\* it, and a handler that returned has sent the "audio failed" reply.
C12_AudioFailureKeepsDocument ==
    \A t \in DOMAIN tasks :
        tasks[t].audio_err \in {"generate_audio", "save_audio"} =>
            /\ load_session(storage, tasks[t].session_id)
                   = Ok([topic |-> topic(t), cards |-> tasks[t].cards])
            /\ ~audio_exists(storage, tasks[t].session_id)
            /\ tasks[t].at = "returned" => "audio_failed" \in tasks[t].sent

\* C13: a handler in which generate_study_cards or create_session raised never
\* sends the session link and never starts the audio step; it ends in the outer
\* except, and when it returns it has shown the user the "Something went wrong"
\* message. The one other way out is that edit itself failing, an exception
\* _process_update_safe then catches when the task ends.
C13_CreationFailureReported ==
    \A t \in DOMAIN tasks :
        tasks[t].e \in {"generate_study_cards", "create_session"} =>
            /\ "link" \notin tasks[t].sent
            /\ tasks[t].session_id = 0
            /\ tasks[t].audio_err = "none"
            /\ tasks[t].at \in {"except", "returned", "escaped"}
            /\ tasks[t].at = "returned" => "error" \in tasks[t].sent
            /\ tasks[t].pc = "done" => t \notin _background_tasks

\* create_session raised in a handler; the handler reported it and its task ended.
C13_Witness ==
    \E t \in DOMAIN tasks :
        /\ tasks[t].e = "create_session"
        /\ tasks[t].pc = "done" /\ tasks[t].at = "returned"
        /\ "error" \in tasks[t].sent

\* The state of an identifier: which of its document and its audio the store shows.
StateOf(S, id) ==
    LET doc == load_session(S, id).kind = "ok"
        audio == audio_exists(S, id)
    IN  IF doc /\ audio THEN "DOCUMENT_AND_AUDIO"
        ELSE IF doc THEN "DOCUMENT_ONLY"
        ELSE IF audio THEN "AUDIO_ONLY"
        ELSE "UNBORN"

Rank(state) ==
    IF state = "UNBORN" THEN 0 ELSE IF state = "DOCUMENT_ONLY" THEN 1 ELSE 2

\* C16: under handle_topic no step moves an identifier backward along UNBORN,
\* DOCUMENT_ONLY, DOCUMENT_AND_AUDIO; audio never exists without a document; and
\* a session whose generate_audio or save_audio failed is at DOCUMENT_ONLY.
C16_ForwardOnly ==
    [][/\ \A id \in Ids :
             /\ Rank(StateOf(storage', id)) >= Rank(StateOf(storage, id))
             /\ StateOf(storage', id) # "AUDIO_ONLY"
       /\ \A t \in DOMAIN tasks' :
             tasks'[t].audio_err \in {"generate_audio", "save_audio"}
                 => StateOf(storage', tasks'[t].session_id) = "DOCUMENT_ONLY"]_vars

\* C17: a handler that has sent the session link holds an identifier that
\* create_session returned; a handler that has begun generate_audio, or anything
\* after it, has sent the link; and a file at an audio path, an audio object or
\* a returned save_audio belongs to a session whose link has been sent.
C17_LinkBeforeAudio ==
    /\ \A t \in DOMAIN tasks :
          /\ "link" \in tasks[t].sent
                => tasks[t].session_id \in Ids /\ Returned(tasks[t].session_id)
          /\ (tasks[t].at \in {"synth", "reply_audio", "audio_except"}
                  \/ tasks[t].audio_err # "none")
                => "link" \in tasks[t].sent
    /\ \A id \in Ids :
          (\/ storage.disk[Mp3Name(id)].exists
           \/ storage.blobs[Mp3Name(id)].exists
           \/ id \in saved)
            => \E t \in DOMAIN tasks :
                  tasks[t].session_id = id /\ "link" \in tasks[t].sent

\* gTTS is part-way through writing the audio of a session whose link is out.
C17_Witness ==
    \E t \in DOMAIN tasks :
        /\ At(t, "synth")
        /\ Len(storage.disk[audio_path(t)].data) >= 1
        /\ ~tts_done(storage, audio_path(t), script(t))
        /\ "link" \in tasks[t].sent

NextWebhook ==
    \/ TelegramWebhook(MaxTasks)
    \/ ProcessUpdateBegin
    \/ ProcessUpdate
    \/ ProcessUpdateEnd

SpecWebhook == Init /\ [][NextWebhook]_vars

\* The tasks ever made in a run that is followed to its end.
MaxLiveTasks == 2

NextWebhookLive ==
    \/ TelegramWebhook(MaxLiveTasks)
    \/ ProcessUpdateBegin
    \/ ProcessUpdate
    \/ ProcessUpdateEnd

\* The event loop runs every task that is ready, and process_update comes to an
\* end, by returning or by raising.
SpecWebhookLive ==
    /\ Init /\ [][NextWebhookLive]_vars
    /\ WF_vars(ProcessUpdateBegin)
    /\ WF_vars(ProcessUpdate)
    /\ WF_vars(ProcessUpdateEnd)

----------------------------------------------------------------------------
(* Properties of the webhook *)

\* The update identifiers the webhook took as new, in the order they came.
Arrivals == [k \in 1..Len(tasks) |-> tasks[k].update_id]

LastN(s, n) == IF Len(s) <= n THEN s ELSE SubSeq(s, Len(s) - n + 1, Len(s))

\* C8: a delivery of an update identifier that is tracked starts no processing:
\* a task is made for an identifier only when it is not in _processed_updates.
C8_NoSecondDispatch ==
    [][\A t \in DOMAIN tasks' :
          t \notin DOMAIN tasks
              => ~(tasks'[t].update_id \in Keys(_processed_updates))]_vars

\* An update was delivered again while tracked, after its processing had failed
\* and ended, and was skipped as a duplicate.
C8_Witness ==
    /\ delivery.did = "duplicate"
    /\ \E t \in DOMAIN tasks :
          /\ tasks[t].update_id = delivery.update_id
          /\ tasks[t].pc = "done" /\ tasks[t].at = "escaped"
    /\ Cardinality({t \in DOMAIN tasks : tasks[t].update_id = delivery.update_id}) = 1

\* C9: _processed_updates holds at most MAX_TRACKED_UPDATES identifiers, without
\* repetition, and they are the latest ones taken as new, oldest first.
C9_BoundedFifo ==
    /\ Len(_processed_updates) <= MAX_TRACKED_UPDATES
    /\ Cardinality(Keys(_processed_updates)) = Len(_processed_updates)
    /\ _processed_updates = LastN(Arrivals, MAX_TRACKED_UPDATES)

\* The earliest identifier was evicted, and a later duplicate delivery left the
\* order as it was.
C9_Witness ==
    /\ Len(Arrivals) > MAX_TRACKED_UPDATES
    /\ Arrivals[1] \notin Keys(_processed_updates)
    /\ delivery.did = "duplicate"
    /\ delivery.update_id = _processed_updates[1]

\* C18: the step in which the webhook takes a new update records its identifier,
\* makes its task and holds it, answers {ok: true}, and runs none of the
\* processing: the new task is still to start and no other task has moved.
C18_AckWithoutWaiting ==
    [][Len(tasks') > Len(tasks) =>
          LET t == Len(tasks') IN
          /\ t = Len(tasks) + 1
          /\ tasks'[t].pc = "scheduled" /\ tasks'[t].at = "start"
          /\ tasks'[t].update_id \in Keys(_processed_updates')
          /\ t \in _background_tasks'
          /\ delivery' = [update_id |-> tasks'[t].update_id, did |-> "dispatched"]
          /\ Ack(delivery').ok
          /\ \A u \in DOMAIN tasks : tasks'[u] = tasks[u]]_vars

\* The webhook has just answered for a new update while two earlier updates are
\* both in processing.
C18_Witness ==
    /\ delivery.did = "dispatched"
    /\ Len(tasks) >= 3
    /\ tasks[Len(tasks)].pc = "scheduled"
    /\ tasks[Len(tasks)].update_id = delivery.update_id
    /\ Cardinality({t \in DOMAIN tasks : tasks[t].pc = "processing"}) >= 2

----------------------------------------------------------------------------
(* Independence of identifiers *)

\* What the store shows of an identifier: its document, whether it has audio,
\* and the bytes its audio path serves.
ObservableState(S, id) ==
    LET r == get_audio_path(S, id).ret IN
    [doc |-> load_session(S, id),
     ready |-> audio_exists(S, id),
     audio |-> IF r = None THEN None ELSE Ok(r.val.bytes)]

\* S2 is S after the call recorded in r: what the call may not have touched.
Untouched(S, S2, r) ==
    /\ r.op = "create_session" =>
          /\ \A j \in Ids \ {r.id} : ObservableState(S2, j) = ObservableState(S, j)
          /\ ObservableState(S2, r.id).ready = ObservableState(S, r.id).ready
          /\ ObservableState(S2, r.id).audio = ObservableState(S, r.id).audio
          /\ \A n \in Names \ {JsonName(r.id)} :
                S2.disk[n] = S.disk[n] /\ S2.blobs[n] = S.blobs[n]
    /\ r.op = "save_audio" =>
          /\ \A j \in Ids \ {r.id} : ObservableState(S2, j) = ObservableState(S, j)
          /\ \A j \in Ids : load_session(S2, j) = load_session(S, j)
          /\ \A n \in Names \ {Mp3Name(r.id)} :
                S2.disk[n] = S.disk[n] /\ S2.blobs[n] = S.blobs[n]

\* C19: on either backend a create_session that returns id changes the document
\* of id and nothing else, and a save_audio(id, path) changes the audio of id and
\* nothing else: no other identifier's document or audio, and no document at all.
C19_OtherIdentifiersUntouched ==
    [][/\ Untouched(storage, storage', ret')
       /\ Untouched(twin.S, twin'.S, twin'.ret)]_vars

\* On the remote backend save_audio has just stored audio for an identifier that
\* has no document, beside another identifier that has a document and audio.
C19_Witness ==
    /\ twin.ret.op = "save_audio" /\ twin.ret.val = None
    /\ audio_exists(twin.S, twin.ret.id)
    /\ load_session(twin.S, twin.ret.id) = None
    /\ \E j \in Ids \ {twin.ret.id} :
          load_session(twin.S, j).kind = "ok" /\ audio_exists(twin.S, j)

----------------------------------------------------------------------------
(* The tasks the webhook holds *)

\* C20: _background_tasks is exactly the tasks made and not yet finished, a task
\* whose processing raised included until _process_update_safe has caught the
\* exception and ended; every task held is in time released, and the set is
\* empty again and again.
C20_BackgroundTasksHeld ==
    /\ [](_background_tasks = {t \in DOMAIN tasks : tasks[t].pc # "done"})
    /\ \A t \in 1..MaxLiveTasks : (t \in _background_tasks) ~> (t \notin _background_tasks)
    /\ []<>(_background_tasks = {})

\* A task whose processing raised has ended and been released while another
\* task is still held.
C20_Witness ==
    \E t \in DOMAIN tasks :
        /\ tasks[t].pc = "done" /\ tasks[t].at = "escaped"
        /\ t \notin _background_tasks
        /\ _background_tasks # {}
====
